---- MODULE Spec2Model ----
(***************************************************************************)
(* Model of the game-server session runtime                                *)
(* (src/code_with_q_cli/game-server/src/main.cpp): the voxel chunk and its *)
(* run-length encoding, the chunked world, the player, the session roster  *)
(* with idle eviction, and the session-slot lifecycle callbacks.           *)
(*                                                                         *)
(* Each class is exercised by a specification of its own (SpecChunk,       *)
(* SpecWorld, SpecPlayer, SpecSession, SpecLifecycle), the world under     *)
(* concurrent use by SpecWorldThreads, the whole process by SpecServer and *)
(* the eviction under fair scheduling by SpecEviction; they share one set  *)
(* of variables, and a specification leaves the objects it does not use at *)
(* a fixed value.                                                          *)
(***************************************************************************)
EXTENDS Integers, Sequences, FiniteSets, TLC

VARIABLES
    clock,      \* the wall clock read by std::time(nullptr), in seconds
    call,       \* the last completed call of the object under test, with its result
                \* (of a session: the last call that returned a bool or a count)
    lastSet,    \* history: cell coordinates -> type of the last in-range setBlock
                \* call at these coordinates, 0 while there has been none
    chunk,      \* one WorldChunk object: chunkX, chunkZ, blocks, lastModified
    player,     \* one Player object
    chunks,     \* GameWorld::chunks: chunk id -> WorldChunk
    chunkMutex, \* GameWorld::chunkMutex: the thread that holds it
    players,    \* GameSession::players of the session in use: playerId -> Player
    playersMutex,        \* GameSession::playersMutex: the thread that holds it
    g_gameSession,       \* the active-session slot: NoSession or the session's fields
    g_gameSessionMutex,  \* the thread that holds the slot's mutex
    signal,     \* the last signal sent to the hosting platform
    pc,         \* thread -> where it is in the operation it runs
    local       \* thread -> the arguments and local variables of that operation

vars == <<clock, call, lastSet, chunk, player, chunks, chunkMutex, players, playersMutex,
          g_gameSession, g_gameSessionMutex, signal, pc, local>>

\* The objects of each class, for the specifications that do not use them.
chunkVars == <<chunk>>
playerVars == <<player>>
worldVars == <<chunks, chunkMutex>>
rosterVars == <<players, playersMutex>>
slotVars == <<g_gameSession, g_gameSessionMutex, signal>>
threadVars == <<pc, local>>

outsideChunk == <<playerVars, worldVars, rosterVars, slotVars, threadVars>>
outsidePlayer == <<chunkVars, lastSet, worldVars, rosterVars, slotVars, threadVars>>
outsideWorld == <<chunkVars, playerVars, rosterVars, slotVars, threadVars>>
outsideSession == <<chunkVars, lastSet, playerVars, worldVars>>

(***************************************************************************)
(* Program constants and the bounds of the model.                          *)
(***************************************************************************)
CHUNK_SIZE == 16

\* The source's chunk is 256 cells high (the literal 256 of lines 37, 45 and
\* 54); the model scales the height down and keeps the 16 x 16 layer.
CHUNK_HEIGHT == 2

\* The first time the wall clock shows, and the longest time the model lets pass.
StartClock == 1
MaxElapsed == 1

ClockTimes == StartClock .. (StartClock + MaxElapsed)

NoCall == [op |-> "none"]

\* The values of the objects a specification does not use.
NoChunk == [chunkX |-> 0, chunkZ |-> 0, blocks |-> <<>>, lastModified |-> 0]
NoPlayer == [playerId |-> ""]
NoThread == "none"
NoSession == [sessionId |-> ""]
NoSignal == [kind |-> "none"]

ChunkUnused == chunk = NoChunk
PlayerUnused == player = NoPlayer
WorldUnused == chunks = <<>> /\ chunkMutex = NoThread
RosterUnused == players = <<>> /\ playersMutex = NoThread
SlotUnused == g_gameSession = NoSession /\ g_gameSessionMutex = NoThread /\ signal = NoSignal
ThreadsUnused == pc = <<>> /\ local = <<>>

(***************************************************************************)
(* The wall clock: std::time(nullptr) never goes back in the model.        *)
(***************************************************************************)
AdvanceClock ==
    /\ \E t \in ClockTimes : t > clock /\ clock' = t
    /\ UNCHANGED <<call, lastSet, chunkVars, playerVars, worldVars, rosterVars, slotVars, threadVars>>

(***************************************************************************)
(* WorldChunk                                                              *)
(***************************************************************************)
NumCells == CHUNK_SIZE * CHUNK_SIZE * CHUNK_HEIGHT

\* WorldChunk::WorldChunk: blocks.resize(CHUNK_SIZE * CHUNK_SIZE * 256, 0), lastModified(0)
WorldChunk(cx, cz) ==
    [chunkX |-> cx, chunkZ |-> cz,
     blocks |-> [i \in 0 .. (NumCells - 1) |-> 0],
     lastModified |-> 0]

\* WorldChunk::getChunkId: std::to_string(chunkX) + ":" + std::to_string(chunkZ)
getChunkId(cx, cz) == ToString(cx) \o ":" \o ToString(cz)

\* The range test that opens setBlock and getBlock (negated: TRUE when in range).
InRange(x, y, z) ==
    ~(x < 0 \/ x >= CHUNK_SIZE \/ y < 0 \/ y >= CHUNK_HEIGHT \/ z < 0 \/ z >= CHUNK_SIZE)

\* The index without the row stride: z and x share one axis.
BlockIndex_noStride(x, y, z) == (y * CHUNK_SIZE * CHUNK_SIZE) + z + x

\* The linearization of setBlock and getBlock (lines 48 and 57).
BlockIndex(x, y, z) == (y * CHUNK_SIZE * CHUNK_SIZE) + (z * CHUNK_SIZE) + x

\* setBlock stamping lastModified before it tests the range.
WorldChunk_setBlock_stampFirst(c, x, y, z, blockType, now) ==
    IF ~InRange(x, y, z)
    THEN [c EXCEPT !.lastModified = now]
    ELSE [c EXCEPT !.blocks[BlockIndex(x, y, z)] = blockType,
                   !.lastModified = now]

\* WorldChunk::setBlock, on chunk c at wall-clock time now.
WorldChunk_setBlock(c, x, y, z, blockType, now) ==
    IF ~InRange(x, y, z)
    THEN c
    ELSE [c EXCEPT !.blocks[BlockIndex(x, y, z)] = blockType,
                   !.lastModified = now]

\* WorldChunk::getBlock
WorldChunk_getBlock(c, x, y, z) ==
    IF ~InRange(x, y, z)
    THEN 0
    ELSE c.blocks[BlockIndex(x, y, z)]

\* The loop body that starts a new run without resetting its length.
RleStep_keepCount(blocks, i, st) ==
    IF blocks[i] = st.currentBlock
    THEN [st EXCEPT !.count = st.count + 1]
    ELSE [compressed |-> Append(st.compressed,
                                [type |-> st.currentBlock, count |-> st.count]),
          currentBlock |-> blocks[i],
          count |-> st.count]

\* The body of the run-length loop of WorldChunk::serialize at index i: st holds
\* the runs pushed so far, the current run's type and its length.
RleStep(blocks, i, st) ==
    IF blocks[i] = st.currentBlock
    THEN [st EXCEPT !.count = st.count + 1]
    ELSE [compressed |-> Append(st.compressed,
                                [type |-> st.currentBlock, count |-> st.count]),
          currentBlock |-> blocks[i],
          count |-> 1]

\* The loop "for (i = lo; i < hi; ++i)": the body applied at lo, lo+1, ..., hi-1
\* in this order. The range is halved, and the state after the first half is
\* looked at before the second half starts, only to keep TLC's evaluation shallow.
RECURSIVE RleLoop(_, _, _, _)
RleLoop(blocks, lo, hi, st) ==
    IF lo >= hi THEN st
    ELSE IF hi = lo + 1 THEN RleStep(blocks, lo, st)
    ELSE LET half == RleLoop(blocks, lo, (lo + hi) \div 2, st)
         IN  IF half.count >= 1
             THEN RleLoop(blocks, (lo + hi) \div 2, hi, half)
             ELSE half

\* The encoder of WorldChunk::serialize: lines 75-88.
RleEncode(blocks) ==
    LET st == RleLoop(blocks, 1, NumCells,
                      [compressed |-> <<>>, currentBlock |-> blocks[0], count |-> 1])
    IN  Append(st.compressed, [type |-> st.currentBlock, count |-> st.count])

\* WorldChunk::serialize: the JSON object as a record.
WorldChunk_serialize(c) ==
    [chunkId |-> getChunkId(c.chunkX, c.chunkZ),
     blocks |-> RleEncode(c.blocks),
     lastModified |-> c.lastModified]

\* The inputs of the chunk operations: the corner cells, the unit steps along
\* each axis, and one coordinate outside the range on each side of each axis.
ChunkCoords ==
    { <<0, 0, 0>>, <<1, 0, 0>>, <<0, 1, 0>>, <<0, 0, 1>>,
      <<CHUNK_SIZE - 1, CHUNK_HEIGHT - 1, CHUNK_SIZE - 1>>,
      <<-1, 0, 0>>, <<CHUNK_SIZE, 0, 0>>,
      <<0, -1, 0>>, <<0, CHUNK_HEIGHT, 0>>,
      <<0, 0, -1>>, <<0, 0, CHUNK_SIZE>> }

BlockTypes == {0, 7}

ChunkSetBlock ==
    \E p \in ChunkCoords, t \in BlockTypes :
        /\ chunk' = WorldChunk_setBlock(chunk, p[1], p[2], p[3], t, clock)
        /\ lastSet' = IF InRange(p[1], p[2], p[3])
                      THEN [lastSet EXCEPT ![p] = t]
                      ELSE lastSet
        /\ call' = [op |-> "setBlock", at |-> p, type |-> t]
        /\ UNCHANGED <<clock, outsideChunk>>

ChunkGetBlock ==
    \E p \in ChunkCoords :
        /\ call' = [op |-> "getBlock", at |-> p,
                    ret |-> WorldChunk_getBlock(chunk, p[1], p[2], p[3])]
        /\ UNCHANGED <<clock, chunkVars, lastSet, outsideChunk>>

ChunkSerialize ==
    /\ call' = [op |-> "serialize", ret |-> WorldChunk_serialize(chunk)]
    /\ UNCHANGED <<clock, chunkVars, lastSet, outsideChunk>>

InitChunk ==
    /\ clock = StartClock
    /\ chunk = WorldChunk(0, 0)
    /\ lastSet = [p \in {q \in ChunkCoords : InRange(q[1], q[2], q[3])} |-> 0]
    /\ call = NoCall
    /\ PlayerUnused /\ WorldUnused /\ RosterUnused /\ SlotUnused /\ ThreadsUnused

NextChunk ==
    \/ AdvanceClock
    \/ ChunkSetBlock
    \/ ChunkGetBlock
    \/ ChunkSerialize

SpecChunk == InitChunk /\ [][NextChunk]_vars

(***************************************************************************)
(* GameWorld                                                               *)
(***************************************************************************)
Abs(a) == IF a < 0 THEN -a ELSE a

\* The spacing of the floats around the magnitude a: 1 while a fits the 24-bit
\* significand, doubling with every further bit.
RECURSIVE FloatUlp(_, _)
FloatUlp(a, u) == IF a \div u < 16777216 THEN u ELSE FloatUlp(a, 2 * u)

\* static_cast<float>(x) of an int x: the nearest float, ties to the even
\* significand.
ToFloat(x) ==
    LET a == Abs(x)
        u == FloatUlp(a, 1)
        q == a \div u
        r == a % u
        m == IF 2 * r > u \/ (2 * r = u /\ q % 2 = 1) THEN (q + 1) * u ELSE q * u
    IN  IF x < 0 THEN -m ELSE m

\* int chunkX = std::floor(static_cast<float>(x) / CHUNK_SIZE): the float
\* quotient by 16 is exact, its floor is the integer floor (\div rounds down).
ChunkCoord(x) == ToFloat(x) \div CHUNK_SIZE

\* int localX = x - (chunkX * CHUNK_SIZE)
LocalCoord(x, chunkX) == x - (chunkX * CHUNK_SIZE)

\* GameWorld::getChunk: the map after the call and the id of the chunk the
\* returned pointer refers to.
GameWorld_getChunk(cs, chunkX, chunkZ) ==
    LET chunkId == getChunkId(chunkX, chunkZ) IN
    IF chunkId \notin DOMAIN cs
    THEN [chunks |-> [i \in (DOMAIN cs) \cup {chunkId} |->
                        IF i = chunkId THEN WorldChunk(chunkX, chunkZ) ELSE cs[i]],
          chunkId |-> chunkId]
    ELSE [chunks |-> cs, chunkId |-> chunkId]

\* GameWorld::setBlock run by one caller alone: the map after the call, with
\* the chunk and the local coordinates it addressed.
GameWorld_setBlock(cs, x, y, z, blockType, now) ==
    LET chunkX == ChunkCoord(x)
        chunkZ == ChunkCoord(z)
        localX == LocalCoord(x, chunkX)
        localZ == LocalCoord(z, chunkZ)
        got == GameWorld_getChunk(cs, chunkX, chunkZ)
    IN  [chunks |-> [got.chunks EXCEPT ![got.chunkId] =
                        WorldChunk_setBlock(@, localX, y, localZ, blockType, now)],
         chunkId |-> got.chunkId,
         local |-> <<localX, y, localZ>>]

\* GameWorld::getBlock run by one caller alone: the map after the call (the
\* read creates a missing chunk), the value returned, and the chunk and the
\* local coordinates it addressed.
GameWorld_getBlock(cs, x, y, z) ==
    LET chunkX == ChunkCoord(x)
        chunkZ == ChunkCoord(z)
        localX == LocalCoord(x, chunkX)
        localZ == LocalCoord(z, chunkZ)
        got == GameWorld_getChunk(cs, chunkX, chunkZ)
    IN  [chunks |-> got.chunks,
         ret |-> WorldChunk_getBlock(got.chunks[got.chunkId], localX, y, localZ),
         chunkId |-> got.chunkId,
         local |-> <<localX, y, localZ>>]

\* getModifiedChunks with >= in place of >.
GameWorld_getModifiedChunks_inclusive(cs, since) ==
    {i \in DOMAIN cs : cs[i].lastModified >= since}

\* GameWorld::getModifiedChunks: the ids returned (the order is the map's).
GameWorld_getModifiedChunks(cs, since) ==
    {i \in DOMAIN cs : cs[i].lastModified > since}

\* GameWorld::serializeChunk: "{}" for an absent id.
GameWorld_serializeChunk(cs, chunkId) ==
    IF chunkId \in DOMAIN cs THEN WorldChunk_serialize(cs[chunkId]) ELSE "{}"

\* The inputs of the world operations: cells on both sides of the origin and
\* in the next chunk, a coordinate beyond the 24-bit significand of a float,
\* and a height outside the chunk.
WorldCoords ==
    { <<-1, 1, -1>>, <<0, 1, 0>>, <<CHUNK_SIZE, 0, 0>>,
      <<16777231, 0, 0>>, <<0, CHUNK_HEIGHT, 0>> }

WorldBlockTypes == {0, 5}
SinceTimes == {0} \cup ClockTimes
ChunkIds == {"-1:-1", "0:-1"}

WorldSetBlock ==
    \E p \in WorldCoords, t \in WorldBlockTypes :
        LET r == GameWorld_setBlock(chunks, p[1], p[2], p[3], t, clock) IN
        /\ chunks' = r.chunks
        /\ lastSet' = IF p \in DOMAIN lastSet THEN [lastSet EXCEPT ![p] = t] ELSE lastSet
        /\ call' = [op |-> "setBlock", at |-> p, chunkId |-> r.chunkId, local |-> r.local]
        /\ UNCHANGED <<clock, chunkMutex, outsideWorld>>

WorldGetBlock ==
    \E p \in WorldCoords :
        LET r == GameWorld_getBlock(chunks, p[1], p[2], p[3]) IN
        /\ chunks' = r.chunks
        /\ call' = [op |-> "getBlock", at |-> p, chunkId |-> r.chunkId,
                    local |-> r.local, ret |-> r.ret]
        /\ UNCHANGED <<clock, lastSet, chunkMutex, outsideWorld>>

WorldGetModifiedChunks ==
    \E since \in SinceTimes :
        /\ call' = [op |-> "getModifiedChunks", since |-> since,
                    ret |-> GameWorld_getModifiedChunks(chunks, since)]
        /\ UNCHANGED <<clock, lastSet, worldVars, outsideWorld>>

WorldSerializeChunk ==
    \E i \in ChunkIds :
        /\ call' = [op |-> "serializeChunk", chunkId |-> i,
                    ret |-> GameWorld_serializeChunk(chunks, i)]
        /\ UNCHANGED <<clock, lastSet, worldVars, outsideWorld>>

\* GameWorld::GameWorld: an empty chunk map. lastSet is keyed by the world
\* coordinates whose height is inside the chunk.
InitWorld ==
    /\ clock = StartClock
    /\ chunks = <<>>
    /\ chunkMutex = NoThread
    /\ lastSet = [p \in {q \in WorldCoords : 0 <= q[2] /\ q[2] < CHUNK_HEIGHT} |-> 0]
    /\ call = NoCall
    /\ ChunkUnused /\ PlayerUnused /\ RosterUnused /\ SlotUnused /\ ThreadsUnused

NextWorld ==
    \/ AdvanceClock
    \/ WorldSetBlock
    \/ WorldGetBlock
    \/ WorldGetModifiedChunks
    \/ WorldSerializeChunk

SpecWorld == InitWorld /\ [][NextWorld]_vars

(***************************************************************************)
(* Player                                                                  *)
(***************************************************************************)
Min(a, b) == IF a < b THEN a ELSE b
Max(a, b) == IF a > b THEN a ELSE b

\* Player::Player and the default member initializers of lines 223-229.
Player(id, name, now) ==
    [playerId |-> id, playerName |-> name,
     x |-> 0, y |-> 100, z |-> 0,
     health |-> 100,
     level |-> 1,
     isConnected |-> TRUE,
     lastActivity |-> now,
     unlockedAreas |-> {"starting_area"},
     learnedAstras |-> {},
     learnedSiddhis |-> {},
     hasBrahmaKavacha |-> FALSE]

\* Player::setPosition
setPosition(pl, newX, newY, newZ, now) ==
    [pl EXCEPT !.x = newX, !.y = newY, !.z = newZ, !.lastActivity = now]

\* setHealth with the lower clamp only.
setHealth_noUpperClamp(pl, newHealth) ==
    [pl EXCEPT !.health = Max(0, newHealth)]

\* Player::setHealth
setHealth(pl, newHealth) ==
    [pl EXCEPT !.health = Max(0, Min(100, newHealth))]

\* setConnected that refreshes lastActivity whatever its argument.
setConnected_alwaysRefreshes(pl, connected, now) ==
    [pl EXCEPT !.isConnected = connected, !.lastActivity = now]

\* Player::setConnected
setConnected(pl, connected, now) ==
    IF connected
    THEN [pl EXCEPT !.isConnected = connected, !.lastActivity = now]
    ELSE [pl EXCEPT !.isConnected = connected]

\* Player::updateActivity
updateActivity(pl, now) == [pl EXCEPT !.lastActivity = now]

\* Player::addUnlockedArea, addLearnedAstra, addLearnedSiddhi
addUnlockedArea(pl, area) == [pl EXCEPT !.unlockedAreas = @ \cup {area}]
addLearnedAstra(pl, astra) == [pl EXCEPT !.learnedAstras = @ \cup {astra}]
addLearnedSiddhi(pl, siddhi) == [pl EXCEPT !.learnedSiddhis = @ \cup {siddhi}]

\* Player::setBrahmaKavacha, Player::setLevel
setBrahmaKavacha(pl, has) == [pl EXCEPT !.hasBrahmaKavacha = has]
setLevel(pl, newLevel) == [pl EXCEPT !.level = newLevel]

\* The inputs of the Player operations. Health arguments include the ends of
\* the int range; positions are floats in the source, whole numbers here.
HealthArgs == {-2147483647 - 1, -1, 0, 50, 100, 101, 2147483647}
Positions == { <<0, 100, 0>>, <<-3, 64, 17>> }
Levels == {1, 2}
Areas == {"starting_area", "forest"}
Astras == {"agneyastra"}
Siddhis == {"anima"}

PlayerSetPosition ==
    \E q \in Positions :
        /\ player' = setPosition(player, q[1], q[2], q[3], clock)
        /\ call' = [op |-> "setPosition", arg |-> q]
        /\ UNCHANGED <<clock, outsidePlayer>>

PlayerSetHealth ==
    \E h \in HealthArgs :
        /\ player' = setHealth(player, h)
        /\ call' = [op |-> "setHealth", arg |-> h]
        /\ UNCHANGED <<clock, outsidePlayer>>

PlayerSetConnected ==
    \E b \in BOOLEAN :
        /\ player' = setConnected(player, b, clock)
        /\ call' = [op |-> "setConnected", arg |-> b]
        /\ UNCHANGED <<clock, outsidePlayer>>

PlayerUpdateActivity ==
    /\ player' = updateActivity(player, clock)
    /\ call' = [op |-> "updateActivity"]
    /\ UNCHANGED <<clock, outsidePlayer>>

PlayerAddUnlockedArea ==
    \E a \in Areas :
        /\ player' = addUnlockedArea(player, a)
        /\ call' = [op |-> "addUnlockedArea", arg |-> a]
        /\ UNCHANGED <<clock, outsidePlayer>>

PlayerAddLearnedAstra ==
    \E a \in Astras :
        /\ player' = addLearnedAstra(player, a)
        /\ call' = [op |-> "addLearnedAstra", arg |-> a]
        /\ UNCHANGED <<clock, outsidePlayer>>

PlayerAddLearnedSiddhi ==
    \E a \in Siddhis :
        /\ player' = addLearnedSiddhi(player, a)
        /\ call' = [op |-> "addLearnedSiddhi", arg |-> a]
        /\ UNCHANGED <<clock, outsidePlayer>>

PlayerSetBrahmaKavacha ==
    \E b \in BOOLEAN :
        /\ player' = setBrahmaKavacha(player, b)
        /\ call' = [op |-> "setBrahmaKavacha", arg |-> b]
        /\ UNCHANGED <<clock, outsidePlayer>>

PlayerSetLevel ==
    \E l \in Levels :
        /\ player' = setLevel(player, l)
        /\ call' = [op |-> "setLevel", arg |-> l]
        /\ UNCHANGED <<clock, outsidePlayer>>

InitPlayer ==
    /\ clock = StartClock
    /\ lastSet = <<>>
    /\ player = Player("p1", "Arjuna", clock)
    /\ call = [op |-> "Player"]
    /\ ChunkUnused /\ WorldUnused /\ RosterUnused /\ SlotUnused /\ ThreadsUnused

NextPlayer ==
    \/ AdvanceClock
    \/ PlayerSetPosition
    \/ PlayerSetHealth
    \/ PlayerSetConnected
    \/ PlayerUpdateActivity
    \/ PlayerAddUnlockedArea
    \/ PlayerAddLearnedAstra
    \/ PlayerAddLearnedSiddhi
    \/ PlayerSetBrahmaKavacha
    \/ PlayerSetLevel

SpecPlayer == InitPlayer /\ [][NextPlayer]_vars

(***************************************************************************)
(* GameSession: the roster, its mutex, and the threads that use it.        *)
(*                                                                         *)
(* A std::lock_guard region is two steps: the acquisition, which waits for *)
(* the mutex to be free, and the region's code with the release at the end *)
(* of the scope.                                                           *)
(***************************************************************************)
\* The capacity of the roster (16 in the source, line 23), scaled down.
MAX_PLAYERS == 2

\* The timeout of GameSession::update (the literal 300 of line 382).
IDLE_TIMEOUT == 300

TickThread == "tick"
Transport == {"t1", "t2"}

\* One player id more than the roster can hold; std::map iterates the ids in
\* ascending order, which is the order of this sequence.
PlayerIdSeq == [i \in 1 .. (MAX_PLAYERS + 1) |-> "p" \o ToString(i)]
PlayerIds == {PlayerIdSeq[i] : i \in DOMAIN PlayerIdSeq}
IdRank(id) == CHOOSE i \in DOMAIN PlayerIdSeq : PlayerIdSeq[i] = id

RECURSIVE KeysInOrder(_)
KeysInOrder(S) ==
    IF S = {} THEN <<>>
    ELSE LET m == CHOOSE a \in S : \A b \in S : IdRank(a) <= IdRank(b)
         IN  <<m>> \o KeysInOrder(S \ {m})

\* The times the session's clock shows: the start, a little later, and the
\* timeout after that.
SessionTimes ==
    {StartClock, StartClock + MaxElapsed, StartClock + MaxElapsed + IDLE_TIMEOUT}

LetTimePass ==
    /\ \E t \in SessionTimes : t > clock /\ clock' = t
    /\ UNCHANGED <<call, lastSet, chunkVars, playerVars, worldVars, rosterVars,
                   slotVars, threadVars>>

\* std::mutex::lock returns once no thread holds the mutex.
MutexFree(m) == m = NoThread

\* A thread's locals between two operations.
NoLocals == [id |-> ""]

\* A thread that crashed ends the process.
Running == \A t \in DOMAIN pc : pc[t] # "crashed"

\* addPlayer that refuses only above the capacity.
GameSession_addPlayer_offByOne(ps, playerId, playerName, now) ==
    IF Cardinality(DOMAIN ps) > MAX_PLAYERS
    THEN [players |-> ps, ret |-> FALSE]
    ELSE [players |-> [i \in (DOMAIN ps) \cup {playerId} |->
                          IF i = playerId THEN Player(playerId, playerName, now)
                          ELSE ps[i]],
          ret |-> TRUE]

\* GameSession::addPlayer, the region under the lock: the roster after the
\* call and the value returned. players[playerId] = player replaces an entry
\* that has the same id.
GameSession_addPlayer(ps, playerId, playerName, now) ==
    IF Cardinality(DOMAIN ps) >= MAX_PLAYERS
    THEN [players |-> ps, ret |-> FALSE]
    ELSE [players |-> [i \in (DOMAIN ps) \cup {playerId} |->
                          IF i = playerId THEN Player(playerId, playerName, now)
                          ELSE ps[i]],
          ret |-> TRUE]

\* removePlayer whose lookup never finds the id.
GameSession_removePlayer_neverFound(ps, playerId) == ps

\* GameSession::removePlayer, the region under the lock.
GameSession_removePlayer(ps, playerId) ==
    IF playerId \in DOMAIN ps
    THEN [i \in (DOMAIN ps) \ {playerId} |-> ps[i]]
    ELSE ps

\* The test of update() with >= in place of >.
IsInactive_atTimeout(now, pl) == now - pl.lastActivity >= IDLE_TIMEOUT

\* The test of GameSession::update: now - lastActivity > 300.
IsInactive(now, pl) == now - pl.lastActivity > IDLE_TIMEOUT

\* The scan of GameSession::update: the ids pushed to inactivePlayers.
InactivePlayers(ps, now) ==
    KeysInOrder({i \in DOMAIN ps : IsInactive(now, ps[i])})

\* Player::serialize: the JSON object as a record (the three arrays as sets).
Player_serialize(pl) ==
    [playerId |-> pl.playerId, playerName |-> pl.playerName,
     x |-> pl.x, y |-> pl.y, z |-> pl.z,
     health |-> pl.health, level |-> pl.level,
     connected |-> pl.isConnected, hasBrahmaKavacha |-> pl.hasBrahmaKavacha,
     unlockedAreas |-> pl.unlockedAreas, learnedAstras |-> pl.learnedAstras,
     learnedSiddhis |-> pl.learnedSiddhis]

\* A default-constructed JsonValue: an array slot that was never assigned.
NullJson == [playerId |-> "null"]

\* The bookkeeping of a write to the roster by thread t, on the locals lc:
\*  - a raw Player* held by another thread dangles once its Player is erased or
\*    replaced (the ids in freed);
\*  - an update() in progress is no longer alone (and the record of what its
\*    scan saw is dropped);
\*  - a serializePlayerStates in progress has seen one more roster.
AfterRosterWrite(lc, t, freed, ps) ==
    [u \in DOMAIN lc |->
        IF u = t THEN lc[u]
        ELSE IF pc[u] = "handle" /\ lc[u].id \in freed
             THEN [lc[u] EXCEPT !.valid = FALSE]
        ELSE IF pc[u] \in {"update_remove", "update_erase"}
             THEN [lc[u] EXCEPT !.alone = FALSE, !.before = <<>>, !.now = 0]
        ELSE IF pc[u] = "ser_iter"
             THEN [lc[u] EXCEPT !.seen = @ \cup {DOMAIN ps}]
        ELSE lc[u]]

PlayerNames == [i \in PlayerIds |-> "name-" \o i]

\* bool GameSession::addPlayer(playerId, playerName): lock_guard, line 328.
AddPlayerLock(t) ==
    /\ Running /\ pc[t] = "idle"
    /\ MutexFree(playersMutex)
    /\ playersMutex' = t
    /\ pc' = [pc EXCEPT ![t] = "addPlayer"]
    /\ UNCHANGED <<clock, call, players, local, slotVars, outsideSession>>

\* addPlayer that returns without unlocking playersMutex.
AddPlayerBodyOf_keepsLock(t, id) ==
    LET r == GameSession_addPlayer(players, id, PlayerNames[id], clock) IN
    /\ Running /\ pc[t] = "addPlayer"
    /\ players' = r.players
    /\ playersMutex' = playersMutex
    /\ pc' = [pc EXCEPT ![t] = "idle"]
    /\ local' = AfterRosterWrite(local, t,
                                 IF r.ret THEN {id} \cap DOMAIN players ELSE {},
                                 r.players)
    /\ call' = [op |-> "addPlayer", ret |-> r.ret]
    /\ UNCHANGED <<clock, slotVars, outsideSession>>

\* lines 329-337, for the playerId the caller passed.
AddPlayerBodyOf(t, id) ==
    LET r == GameSession_addPlayer(players, id, PlayerNames[id], clock) IN
    /\ Running /\ pc[t] = "addPlayer"
    /\ players' = r.players
    /\ playersMutex' = NoThread
    /\ pc' = [pc EXCEPT ![t] = "idle"]
    /\ local' = AfterRosterWrite(local, t,
                                 IF r.ret THEN {id} \cap DOMAIN players ELSE {},
                                 r.players)
    /\ call' = [op |-> "addPlayer", ret |-> r.ret]
    /\ UNCHANGED <<clock, slotVars, outsideSession>>

AddPlayerBody(t) == \E id \in PlayerIds : AddPlayerBodyOf(t, id)

\* void GameSession::removePlayer(playerId): lock_guard, line 340.
RemovePlayerLock(t) ==
    /\ Running /\ pc[t] = "idle"
    /\ MutexFree(playersMutex)
    /\ playersMutex' = t
    /\ pc' = [pc EXCEPT ![t] = "removePlayer"]
    /\ UNCHANGED <<clock, call, players, local, slotVars, outsideSession>>

\* lines 341-346, for the playerId the caller passed.
RemovePlayerBody(t) ==
    \E id \in PlayerIds :
        /\ Running /\ pc[t] = "removePlayer"
        /\ players' = GameSession_removePlayer(players, id)
        /\ playersMutex' = NoThread
        /\ pc' = [pc EXCEPT ![t] = "idle"]
        /\ local' = AfterRosterWrite(local, t, {id} \cap DOMAIN players,
                                     GameSession_removePlayer(players, id))
        /\ UNCHANGED <<clock, call, slotVars, outsideSession>>

\* Player* GameSession::getPlayer(playerId): lock_guard, line 349.
GetPlayerLock(t) ==
    /\ Running /\ pc[t] = "idle"
    /\ MutexFree(playersMutex)
    /\ playersMutex' = t
    /\ pc' = [pc EXCEPT ![t] = "getPlayer"]
    /\ UNCHANGED <<clock, call, players, local, slotVars, outsideSession>>

\* lines 350-355: the raw pointer leaves the function, the lock does not.
GetPlayerBody(t) ==
    \E id \in PlayerIds :
        LET found == id \in DOMAIN players IN
        /\ Running /\ pc[t] = "getPlayer"
        /\ playersMutex' = NoThread
        /\ pc' = [pc EXCEPT ![t] = IF found THEN "handle" ELSE "idle"]
        /\ local' = [local EXCEPT ![t] =
                        IF found THEN [id |-> id, valid |-> TRUE] ELSE NoLocals]
        /\ call' = [op |-> "getPlayer", ret |-> found]
        /\ UNCHANGED <<clock, players, slotVars, outsideSession>>

\* What a caller does with the Player* it got: a move, or a reconnection.
HandleCalls ==
    { [op |-> "setPosition", arg |-> <<1, 64, 1>>],
      [op |-> "setConnected", arg |-> TRUE] }

ApplyHandleCall(pl, m, now) ==
    IF m.op = "setPosition"
    THEN setPosition(pl, m.arg[1], m.arg[2], m.arg[3], now)
    ELSE setConnected(pl, m.arg, now)

\* The caller mutates the Player through the pointer, the Player still being
\* the roster's.
HandleCall(t) ==
    \E m \in HandleCalls :
        /\ Running /\ pc[t] = "handle" /\ local[t].valid
        /\ players' = [players EXCEPT ![local[t].id] = ApplyHandleCall(@, m, clock)]
        /\ pc' = [pc EXCEPT ![t] = "idle"]
        /\ local' = AfterRosterWrite([local EXCEPT ![t] = NoLocals], t, {}, players)
        /\ UNCHANGED <<clock, call, playersMutex, slotVars, outsideSession>>

\* The caller mutates through a pointer whose Player was erased or replaced:
\* the write goes to freed memory. It shows nowhere, or it lands in a Player
\* that now occupies the memory, or the process crashes.
HandleCallDangling(t) ==
    \E m \in HandleCalls :
        /\ Running /\ pc[t] = "handle" /\ ~local[t].valid
        /\ \/ /\ players' = players
              /\ pc' = [pc EXCEPT ![t] = "idle"]
              /\ local' = [local EXCEPT ![t] = NoLocals]
           \/ /\ \E id \in DOMAIN players :
                    players' = [players EXCEPT ![id] = ApplyHandleCall(@, m, clock)]
              /\ pc' = [pc EXCEPT ![t] = "idle"]
              /\ local' = AfterRosterWrite([local EXCEPT ![t] = NoLocals], t, {}, players)
           \/ /\ players' = players
              /\ pc' = [pc EXCEPT ![t] = "crashed"]
              /\ local' = [local EXCEPT ![t] = NoLocals]
        /\ UNCHANGED <<clock, call, playersMutex, slotVars, outsideSession>>

\* size_t GameSession::getPlayerCount(): lock_guard, line 358.
GetPlayerCountLock(t) ==
    /\ Running /\ pc[t] = "idle"
    /\ MutexFree(playersMutex)
    /\ playersMutex' = t
    /\ pc' = [pc EXCEPT ![t] = "getPlayerCount"]
    /\ UNCHANGED <<clock, call, players, local, slotVars, outsideSession>>

GetPlayerCountBody(t) ==
    /\ Running /\ pc[t] = "getPlayerCount"
    /\ playersMutex' = NoThread
    /\ pc' = [pc EXCEPT ![t] = "idle"]
    /\ call' = [op |-> "getPlayerCount", ret |-> Cardinality(DOMAIN players)]
    /\ UNCHANGED <<clock, players, local, slotVars, outsideSession>>

\* serializePlayerStates without its lock_guard.
SerializeLock_noLock(t) ==
    /\ Running /\ pc[t] = "idle"
    /\ pc' = [pc EXCEPT ![t] = "ser_iter"]
    /\ local' = [local EXCEPT ![t] =
                    [seen |-> {DOMAIN players},
                     playersArray |-> [k \in 1 .. Cardinality(DOMAIN players) |-> NullJson],
                     i |-> 0,
                     last |-> 0]]
    /\ UNCHANGED <<clock, call, players, playersMutex, slotVars, outsideSession>>

\* std::string GameSession::serializePlayerStates(): the lock_guard of line
\* 399, playersArray = Array(players.size()) of line 400 and int i = 0 of line
\* 402. last is the position of the map iterator (the rank of the key it has
\* passed); seen collects the id sets the roster has while the call runs.
SerializeLock(t) ==
    /\ Running /\ pc[t] = "idle"
    /\ MutexFree(playersMutex)
    /\ playersMutex' = t
    /\ pc' = [pc EXCEPT ![t] = "ser_iter"]
    /\ local' = [local EXCEPT ![t] =
                    [seen |-> {DOMAIN players},
                     playersArray |-> [k \in 1 .. Cardinality(DOMAIN players) |-> NullJson],
                     i |-> 0,
                     last |-> 0]]
    /\ UNCHANGED <<clock, call, players, slotVars, outsideSession>>

\* The keys the iterator of serializePlayerStates has yet to visit.
KeysAfter(ps, last) == {k \in DOMAIN ps : IdRank(k) > last}

\* lines 403-407, one round of the loop: playersArray[i++] = the JSON of the
\* next player. A write past the end of the array corrupts the heap.
SerializeNext(t) ==
    LET lc == local[t]
        k == CHOOSE a \in KeysAfter(players, lc.last) :
                \A b \in KeysAfter(players, lc.last) : IdRank(a) <= IdRank(b)
    IN  /\ Running /\ pc[t] = "ser_iter"
        /\ KeysAfter(players, lc.last) # {}
        /\ IF lc.i + 1 > Len(lc.playersArray)
           THEN /\ pc' = [pc EXCEPT ![t] = "crashed"]
                /\ local' = local
           ELSE /\ pc' = pc
                /\ local' = [local EXCEPT ![t] =
                                [lc EXCEPT !.playersArray[lc.i + 1] =
                                               Player_serialize(players[k]),
                                           !.i = lc.i + 1,
                                           !.last = IdRank(k)]]
        /\ UNCHANGED <<clock, call, players, playersMutex, slotVars, outsideSession>>

\* lines 408-411: the end of the loop and of the locked scope, and the return.
SerializeReturn(t) ==
    /\ Running /\ pc[t] = "ser_iter"
    /\ KeysAfter(players, local[t].last) = {}
    /\ playersMutex' = NoThread
    /\ pc' = [pc EXCEPT ![t] = "idle"]
    /\ local' = [local EXCEPT ![t] = NoLocals]
    /\ UNCHANGED <<clock, call, players, slotVars, outsideSession>>

(***************************************************************************)
(* gameLoop and GameSession::update, run by the tick thread.               *)
(***************************************************************************)
\* GameSession::GameSession (the world and the roster are separate variables).
GameSession(sessionId, gameMode, now) ==
    [sessionId |-> sessionId, gameMode |-> gameMode, startTime |-> now]

\* gameLoop, line 490: lock_guard on g_gameSessionMutex.
TickLock ==
    /\ Running /\ pc[TickThread] = "idle"
    /\ MutexFree(g_gameSessionMutex)
    /\ g_gameSessionMutex' = TickThread
    /\ pc' = [pc EXCEPT ![TickThread] = "tick_locked"]
    /\ UNCHANGED <<clock, call, rosterVars, g_gameSession, signal, local, outsideSession>>

\* The call of update() without the test of line 491.
UpdateLock_noNullTest ==
    /\ Running /\ pc[TickThread] = "tick_locked"
    /\ MutexFree(playersMutex)
    /\ playersMutex' = TickThread
    /\ pc' = [pc EXCEPT ![TickThread] = "update_scan"]
    /\ UNCHANGED <<clock, call, players, slotVars, local, outsideSession>>

\* lines 491-492 and 379: if (g_gameSession) update(), which opens with the
\* lock_guard on playersMutex.
UpdateLock ==
    /\ Running /\ pc[TickThread] = "tick_locked"
    /\ g_gameSession # NoSession
    /\ MutexFree(playersMutex)
    /\ playersMutex' = TickThread
    /\ pc' = [pc EXCEPT ![TickThread] = "update_scan"]
    /\ UNCHANGED <<clock, call, players, slotVars, local, outsideSession>>

\* The scan of update() without the braces of lines 378 and 386: the
\* lock_guard lives until update() returns.
UpdateScan_keepsLock ==
    /\ Running /\ pc[TickThread] = "update_scan"
    /\ playersMutex' = playersMutex
    /\ pc' = [pc EXCEPT ![TickThread] = "update_remove"]
    /\ local' = [local EXCEPT ![TickThread] =
                    [now |-> clock,
                     inactivePlayers |-> InactivePlayers(players, clock),
                     i |-> 1,
                     before |-> players,
                     alone |-> TRUE]]
    /\ UNCHANGED <<clock, call, players, slotVars, outsideSession>>

\* lines 380-386: the scan and the end of its scope. before and alone record
\* the roster the scan saw and whether another thread has written to the
\* roster or to a Player since.
UpdateScan ==
    /\ Running /\ pc[TickThread] = "update_scan"
    /\ playersMutex' = NoThread
    /\ pc' = [pc EXCEPT ![TickThread] = "update_remove"]
    /\ local' = [local EXCEPT ![TickThread] =
                    [now |-> clock,
                     inactivePlayers |-> InactivePlayers(players, clock),
                     i |-> 1,
                     before |-> players,
                     alone |-> TRUE]]
    /\ UNCHANGED <<clock, call, players, slotVars, outsideSession>>

\* lines 389-390 with 340: the next removePlayer(playerId) takes the lock.
UpdateRemoveLock ==
    /\ Running /\ pc[TickThread] = "update_remove"
    /\ local[TickThread].i <= Len(local[TickThread].inactivePlayers)
    /\ MutexFree(playersMutex)
    /\ playersMutex' = TickThread
    /\ pc' = [pc EXCEPT ![TickThread] = "update_erase"]
    /\ UNCHANGED <<clock, call, players, slotVars, local, outsideSession>>

\* lines 341-346, called from update().
UpdateRemoveBody ==
    LET lc == local[TickThread]
        id == lc.inactivePlayers[lc.i]
    IN  /\ Running /\ pc[TickThread] = "update_erase"
        /\ players' = GameSession_removePlayer(players, id)
        /\ playersMutex' = NoThread
        /\ pc' = [pc EXCEPT ![TickThread] = "update_remove"]
        /\ local' = AfterRosterWrite([local EXCEPT ![TickThread].i = lc.i + 1],
                                     TickThread, {id} \cap DOMAIN players,
                                     GameSession_removePlayer(players, id))
        /\ UNCHANGED <<clock, call, slotVars, outsideSession>>

\* line 392: update() returns to gameLoop.
UpdateReturn ==
    LET lc == local[TickThread] IN
    /\ Running /\ pc[TickThread] = "update_remove"
    /\ lc.i > Len(lc.inactivePlayers)
    /\ pc' = [pc EXCEPT ![TickThread] = "update_done"]
    /\ local' = [local EXCEPT ![TickThread] = NoLocals]
    /\ UNCHANGED <<clock, call, rosterVars, slotVars, outsideSession>>

\* line 494: the end of the lock_guard scope of the iteration, after update()
\* or with no session in the slot.
TickUnlock ==
    /\ Running /\ pc[TickThread] \in {"tick_locked", "update_done"}
    /\ pc[TickThread] = "tick_locked" => g_gameSession = NoSession
    /\ g_gameSessionMutex' = NoThread
    /\ pc' = [pc EXCEPT ![TickThread] = "idle"]
    /\ UNCHANGED <<clock, call, rosterVars, g_gameSession, signal, local, outsideSession>>

TickStep ==
    \/ TickLock
    \/ UpdateLock
    \/ UpdateScan
    \/ UpdateRemoveLock
    \/ UpdateRemoveBody
    \/ UpdateReturn
    \/ TickUnlock

(***************************************************************************)
(* SpecSession: a session is in the slot; the tick thread runs gameLoop    *)
(* and the transport threads call the roster operations.                   *)
(***************************************************************************)
InitSession ==
    /\ clock = StartClock
    /\ call = NoCall
    /\ lastSet = <<>>
    /\ players = <<>>
    /\ playersMutex = NoThread
    /\ g_gameSession = GameSession("S1", "standard", StartClock)
    /\ g_gameSessionMutex = NoThread
    /\ signal = [kind |-> "ActivateGameSession"]
    /\ pc = [t \in {TickThread} \cup Transport |-> "idle"]
    /\ local = [t \in {TickThread} \cup Transport |-> NoLocals]
    /\ ChunkUnused /\ PlayerUnused /\ WorldUnused

TransportStep(t) ==
    \/ AddPlayerLock(t)
    \/ AddPlayerBody(t)
    \/ RemovePlayerLock(t)
    \/ RemovePlayerBody(t)
    \/ GetPlayerLock(t)
    \/ GetPlayerBody(t)
    \/ HandleCall(t)
    \/ HandleCallDangling(t)
    \/ GetPlayerCountLock(t)
    \/ GetPlayerCountBody(t)
    \/ SerializeLock(t)
    \/ SerializeNext(t)
    \/ SerializeReturn(t)

NextSession ==
    \/ LetTimePass
    \/ TickStep
    \/ \E t \in Transport : TransportStep(t)

SpecSession == InitSession /\ [][NextSession]_vars

(***************************************************************************)
(* SpecEviction: SpecSession with one transport thread and the scheduling  *)
(* the threads can count on. A thread that can run does run (the tick      *)
(* thread in gameLoop, a transport thread inside an operation), so weak     *)
(* fairness holds of their steps; std::mutex promises no order among the    *)
(* threads that want it, so nothing stronger holds of an acquisition.       *)
(***************************************************************************)
EvictionTransport == {"t1"}

\* The steps of a transport thread that has begun an operation.
InOperationStep(t) ==
    \/ AddPlayerBody(t)
    \/ RemovePlayerBody(t)
    \/ GetPlayerBody(t)
    \/ HandleCall(t)
    \/ HandleCallDangling(t)

\* The operations of the transport thread that write to the roster or to a
\* Player.
EvictionTransportStep(t) ==
    \/ AddPlayerLock(t)
    \/ RemovePlayerLock(t)
    \/ GetPlayerLock(t)
    \/ InOperationStep(t)

NextEviction ==
    \/ LetTimePass
    \/ TickStep
    \/ \E t \in EvictionTransport : EvictionTransportStep(t)

SpecEviction ==
    /\ InitSession
    /\ [][NextEviction]_vars
    /\ WF_vars(TickStep)
    /\ \A t \in EvictionTransport : WF_vars(InOperationStep(t))

(***************************************************************************)
(* The world operations as the transport threads run them: getChunk is the *)
(* only part of setBlock and getBlock inside a lock_guard on chunkMutex;   *)
(* WorldChunk::setBlock and WorldChunk::getBlock run on the raw pointer    *)
(* after it. An unlocked access to a cell or to lastModified is one step   *)
(* (an aligned word is read and written whole).                            *)
(***************************************************************************)
ThreadWorldCoords == { <<0, 1, 0>>, <<-1, 1, -1>>, <<0, CHUNK_HEIGHT, 0>> }
ThreadBlockTypes == {5}
ThreadChunkIds == {"0:0"}

outsideThreadedWorld == <<chunkVars, lastSet, playerVars, rosterVars, slotVars>>

\* GameWorld::setBlock, lines 258-266 and 245: the coordinates (which the next
\* step picks) and the lock_guard of getChunk.
WorldSetBlockLock(t) ==
    /\ Running /\ pc[t] = "idle"
    /\ MutexFree(chunkMutex)
    /\ chunkMutex' = t
    /\ pc' = [pc EXCEPT ![t] = "setBlock_getChunk"]
    /\ UNCHANGED <<clock, call, chunks, local, outsideThreadedWorld>>

\* lines 246-253: getChunk finds or creates the chunk and returns the raw
\* pointer; its lock_guard ends with it.
WorldSetBlockGetChunkOf(t, p, blockType) ==
    LET chunkX == ChunkCoord(p[1])
        chunkZ == ChunkCoord(p[3])
        got == GameWorld_getChunk(chunks, chunkX, chunkZ)
    IN  /\ Running /\ pc[t] = "setBlock_getChunk"
        /\ chunks' = got.chunks
        /\ chunkMutex' = NoThread
        /\ pc' = [pc EXCEPT ![t] = "setBlock_cell"]
        /\ local' = [local EXCEPT ![t] =
                        [chunkId |-> got.chunkId,
                         at |-> <<LocalCoord(p[1], chunkX), p[2], LocalCoord(p[3], chunkZ)>>,
                         blockType |-> blockType]]
        /\ UNCHANGED <<clock, call, outsideThreadedWorld>>

WorldSetBlockGetChunk(t) ==
    \E p \in ThreadWorldCoords, blockType \in ThreadBlockTypes :
        WorldSetBlockGetChunkOf(t, p, blockType)

\* line 267 with 45-49: the range test and blocks[index] = blockType.
WorldSetBlockCell(t) ==
    LET lc == local[t] IN
    /\ Running /\ pc[t] = "setBlock_cell"
    /\ IF ~InRange(lc.at[1], lc.at[2], lc.at[3])
       THEN /\ chunks' = chunks
            /\ chunkMutex' = chunkMutex
            /\ pc' = [pc EXCEPT ![t] = "idle"]
            /\ local' = [local EXCEPT ![t] = NoLocals]
       ELSE /\ chunks' = [chunks EXCEPT ![lc.chunkId].blocks[BlockIndex(lc.at[1], lc.at[2], lc.at[3])] =
                                            lc.blockType]
            /\ chunkMutex' = chunkMutex
            /\ pc' = [pc EXCEPT ![t] = "setBlock_stamp"]
            /\ local' = local
    /\ UNCHANGED <<clock, call, outsideThreadedWorld>>

\* line 50: lastModified = std::time(nullptr), and the return.
WorldSetBlockStamp(t) ==
    /\ Running /\ pc[t] = "setBlock_stamp"
    /\ chunks' = [chunks EXCEPT ![local[t].chunkId].lastModified = clock]
    /\ chunkMutex' = chunkMutex
    /\ pc' = [pc EXCEPT ![t] = "idle"]
    /\ local' = [local EXCEPT ![t] = NoLocals]
    /\ UNCHANGED <<clock, call, outsideThreadedWorld>>

\* GameWorld::getBlock, lines 272-280 and 245.
WorldGetBlockLock(t) ==
    /\ Running /\ pc[t] = "idle"
    /\ MutexFree(chunkMutex)
    /\ chunkMutex' = t
    /\ pc' = [pc EXCEPT ![t] = "getBlock_getChunk"]
    /\ UNCHANGED <<clock, call, chunks, local, outsideThreadedWorld>>

\* lines 246-253, called from getBlock.
WorldGetBlockGetChunk(t) ==
    \E p \in ThreadWorldCoords :
        LET chunkX == ChunkCoord(p[1])
            chunkZ == ChunkCoord(p[3])
            got == GameWorld_getChunk(chunks, chunkX, chunkZ)
        IN  /\ Running /\ pc[t] = "getBlock_getChunk"
            /\ chunks' = got.chunks
            /\ chunkMutex' = NoThread
            /\ pc' = [pc EXCEPT ![t] = "getBlock_cell"]
            /\ local' = [local EXCEPT ![t] =
                            [chunkId |-> got.chunkId,
                             at |-> <<LocalCoord(p[1], chunkX), p[2], LocalCoord(p[3], chunkZ)>>]]
            /\ UNCHANGED <<clock, call, outsideThreadedWorld>>

\* line 281 with 53-59: the read of the cell.
WorldGetBlockCell(t) ==
    LET lc == local[t] IN
    /\ Running /\ pc[t] = "getBlock_cell"
    /\ call' = [op |-> "getBlock",
                ret |-> WorldChunk_getBlock(chunks[lc.chunkId], lc.at[1], lc.at[2], lc.at[3])]
    /\ pc' = [pc EXCEPT ![t] = "idle"]
    /\ local' = [local EXCEPT ![t] = NoLocals]
    /\ UNCHANGED <<clock, worldVars, outsideThreadedWorld>>

\* GameWorld::getModifiedChunks: the lock_guard of line 286.
WorldGetModifiedLock(t) ==
    /\ Running /\ pc[t] = "idle"
    /\ MutexFree(chunkMutex)
    /\ chunkMutex' = t
    /\ pc' = [pc EXCEPT ![t] = "getModifiedChunks"]
    /\ UNCHANGED <<clock, call, chunks, local, outsideThreadedWorld>>

\* lines 288-294: the scan and the return.
WorldGetModifiedBody(t) ==
    \E since \in SinceTimes :
        /\ Running /\ pc[t] = "getModifiedChunks"
        /\ chunkMutex' = NoThread
        /\ pc' = [pc EXCEPT ![t] = "idle"]
        /\ call' = [op |-> "getModifiedChunks", since |-> since,
                    ret |-> GameWorld_getModifiedChunks(chunks, since)]
        /\ UNCHANGED <<clock, chunks, local, outsideThreadedWorld>>

\* GameWorld::serializeChunk: the lock_guard of line 298.
WorldSerializeLock(t) ==
    /\ Running /\ pc[t] = "idle"
    /\ MutexFree(chunkMutex)
    /\ chunkMutex' = t
    /\ pc' = [pc EXCEPT ![t] = "serializeChunk"]
    /\ UNCHANGED <<clock, call, chunks, local, outsideThreadedWorld>>

\* lines 299-303: the lookup, WorldChunk::serialize and the return.
WorldSerializeBody(t) ==
    \E i \in ThreadChunkIds :
        /\ Running /\ pc[t] = "serializeChunk"
        /\ chunkMutex' = NoThread
        /\ pc' = [pc EXCEPT ![t] = "idle"]
        /\ call' = [op |-> "serializeChunk", chunkId |-> i,
                    ret |-> GameWorld_serializeChunk(chunks, i)]
        /\ UNCHANGED <<clock, chunks, local, outsideThreadedWorld>>

WorldStep(t) ==
    \/ WorldSetBlockLock(t)
    \/ WorldSetBlockGetChunk(t)
    \/ WorldSetBlockCell(t)
    \/ WorldSetBlockStamp(t)
    \/ WorldGetBlockLock(t)
    \/ WorldGetBlockGetChunk(t)
    \/ WorldGetBlockCell(t)
    \/ WorldGetModifiedLock(t)
    \/ WorldGetModifiedBody(t)
    \/ WorldSerializeLock(t)
    \/ WorldSerializeBody(t)

(***************************************************************************)
(* SpecWorldThreads: the transport threads share one world.                *)
(***************************************************************************)
InitWorldThreads ==
    /\ clock = StartClock
    /\ call = NoCall
    /\ lastSet = <<>>
    /\ chunks = <<>>
    /\ chunkMutex = NoThread
    /\ pc = [t \in Transport |-> "idle"]
    /\ local = [t \in Transport |-> NoLocals]
    /\ ChunkUnused /\ PlayerUnused /\ RosterUnused /\ SlotUnused

NextWorldThreads ==
    \/ AdvanceClock
    \/ \E t \in Transport : WorldStep(t)

SpecWorldThreads == InitWorldThreads /\ [][NextWorldThreads]_vars

(***************************************************************************)
(* The GameLift callbacks, run by the platform's callback threads.         *)
(***************************************************************************)
Callbacks == {"cb1", "cb2"}

\* The loop of onStartGameSession over the game properties without its
\* assignment: the mode stays "standard".
GameModeLoop_ignoresProperties(props, k, gameMode) == gameMode

\* lines 436-440: the loop over the game properties, from property k on.
RECURSIVE GameModeLoop(_, _, _)
GameModeLoop(props, k, gameMode) ==
    IF k > Len(props) THEN gameMode
    ELSE GameModeLoop(props, k + 1,
                      IF props[k].key = "gameMode" THEN props[k].value ELSE gameMode)

\* The session descriptors the platform passes to onStartGameSession.
PropertyLists ==
    { <<>>,
      <<[key |-> "gameMode", value |-> "arena"]>>,
      <<[key |-> "map", value |-> "kurukshetra"]>>,
      <<[key |-> "gameMode", value |-> "arena"], [key |-> "map", value |-> "kurukshetra"],
        [key |-> "gameMode", value |-> "duel"]>> }

Descriptors ==
    [sessionId : {"S1", "S2"}, properties : PropertyLists]

\* The bookkeeping of a write to the slot by thread t: a callback that has
\* written the slot itself and has not returned yet no longer has the slot as
\* it left it.
AfterSlotWrite(lc, t) ==
    [u \in DOMAIN lc |->
        IF u # t /\ pc[u] \in {"start_activate", "term_ending"}
        THEN [lc[u] EXCEPT !.intact = FALSE]
        ELSE lc[u]]

\* The destruction of a session ends the operations the transport threads have
\* in flight on it: they have no further effect.
InFlightDropped(f, idleValue) ==
    [u \in DOMAIN f |-> IF u \in Transport THEN idleValue ELSE f[u]]

\* onStartGameSession, line 444: lock_guard on g_gameSessionMutex (lines
\* 432-440 read the descriptor, which StartInstall picks).
StartLock(t) ==
    /\ Running /\ pc[t] = "idle"
    /\ MutexFree(g_gameSessionMutex)
    /\ g_gameSessionMutex' = t
    /\ pc' = [pc EXCEPT ![t] = "start_locked"]
    /\ UNCHANGED <<clock, call, rosterVars, g_gameSession, signal, local, outsideSession>>

\* line 445 and the end of the scope: the new session replaces the slot's
\* content; the session it replaces is destroyed with its roster and its
\* world, and the new one has a roster and a world of its own.
StartInstallOf(t, d) ==
    LET gameMode == GameModeLoop(d.properties, 1, "standard") IN
    /\ Running /\ pc[t] = "start_locked"
    /\ g_gameSession' = GameSession(d.sessionId, gameMode, clock)
    /\ players' = <<>>
    /\ playersMutex' = NoThread
    /\ g_gameSessionMutex' = NoThread
    /\ chunks' = <<>>
    /\ chunkMutex' = NoThread
    /\ pc' = InFlightDropped([pc EXCEPT ![t] = "start_activate"], "idle")
    /\ local' = InFlightDropped(
                    AfterSlotWrite([local EXCEPT ![t] =
                                       [descriptor |-> d, intact |-> TRUE]], t),
                    NoLocals)
    /\ UNCHANGED <<clock, call, signal, chunkVars, lastSet, playerVars>>

StartInstall(t) == \E d \in Descriptors : StartInstallOf(t, d)

\* lines 449-450: ActivateGameSession() and return true.
StartActivate(t) ==
    /\ Running /\ pc[t] = "start_activate"
    /\ signal' = [kind |-> "ActivateGameSession"]
    /\ pc' = [pc EXCEPT ![t] = "idle"]
    /\ local' = [local EXCEPT ![t] = NoLocals]
    /\ call' = [op |-> "onStartGameSession", ret |-> TRUE]
    /\ UNCHANGED <<clock, rosterVars, g_gameSession, g_gameSessionMutex, outsideSession>>

\* onProcessTerminate, line 458: lock_guard on g_gameSessionMutex.
TerminateLock(t) ==
    /\ Running /\ pc[t] = "idle"
    /\ MutexFree(g_gameSessionMutex)
    /\ g_gameSessionMutex' = t
    /\ pc' = [pc EXCEPT ![t] = "term_locked"]
    /\ UNCHANGED <<clock, call, rosterVars, g_gameSession, signal, local, outsideSession>>

\* line 459 and the end of the scope: g_gameSession.reset().
TerminateReset(t) ==
    /\ Running /\ pc[t] = "term_locked"
    /\ g_gameSession' = NoSession
    /\ players' = <<>>
    /\ playersMutex' = NoThread
    /\ g_gameSessionMutex' = NoThread
    /\ chunks' = <<>>
    /\ chunkMutex' = NoThread
    /\ pc' = InFlightDropped([pc EXCEPT ![t] = "term_ending"], "idle")
    /\ local' = InFlightDropped(
                    AfterSlotWrite([local EXCEPT ![t] = [intact |-> TRUE]], t),
                    NoLocals)
    /\ UNCHANGED <<clock, call, signal, chunkVars, lastSet, playerVars>>

\* lines 463-464: ProcessEnding() and return true.
TerminateEnding(t) ==
    /\ Running /\ pc[t] = "term_ending"
    /\ signal' = [kind |-> "ProcessEnding"]
    /\ pc' = [pc EXCEPT ![t] = "idle"]
    /\ local' = [local EXCEPT ![t] = NoLocals]
    /\ call' = [op |-> "onProcessTerminate", ret |-> TRUE]
    /\ UNCHANGED <<clock, rosterVars, g_gameSession, g_gameSessionMutex, outsideSession>>

\* onHealthCheck
HealthCheck(t) ==
    /\ Running /\ pc[t] = "idle"
    /\ call' = [op |-> "onHealthCheck", ret |-> TRUE]
    /\ UNCHANGED <<clock, rosterVars, slotVars, threadVars, outsideSession>>

CallbackStep(t) ==
    \/ StartLock(t)
    \/ StartInstall(t)
    \/ StartActivate(t)
    \/ TerminateLock(t)
    \/ TerminateReset(t)
    \/ TerminateEnding(t)
    \/ HealthCheck(t)

(***************************************************************************)
(* SpecLifecycle: the process after ProcessReady, with an empty slot; the  *)
(* tick thread runs gameLoop and the callback threads run the callbacks.   *)
(* No thread adds a player here, so update() finds nobody to remove.       *)
(***************************************************************************)
InitLifecycle ==
    /\ clock = StartClock
    /\ call = NoCall
    /\ lastSet = <<>>
    /\ RosterUnused
    /\ SlotUnused
    /\ pc = [t \in {TickThread} \cup Callbacks |-> "idle"]
    /\ local = [t \in {TickThread} \cup Callbacks |-> NoLocals]
    /\ ChunkUnused /\ PlayerUnused /\ WorldUnused

NextLifecycle ==
    \/ LetTimePass
    \/ TickLock
    \/ UpdateLock
    \/ UpdateScan
    \/ UpdateReturn
    \/ TickUnlock
    \/ \E t \in Callbacks : CallbackStep(t)

SpecLifecycle == InitLifecycle /\ [][NextLifecycle]_vars

(***************************************************************************)
(* SpecServer: the whole process after ProcessReady. The tick thread runs  *)
(* gameLoop, a callback thread runs the GameLift callbacks, and a          *)
(* transport thread runs roster and world operations on the session in the *)
(* slot while there is one.                                                *)
(***************************************************************************)
ServerCallbacks == Callbacks
ServerTransport == {"t1"}
ServerDescriptors ==
    { [sessionId |-> "S1", properties |-> <<[key |-> "gameMode", value |-> "arena"]>>] }
ServerPlayerIds == {"p1", "p2"}
ServerWorldCoords == { <<0, 1, 0>> }

InitServer ==
    /\ clock = StartClock
    /\ call = NoCall
    /\ lastSet = <<>>
    /\ RosterUnused
    /\ SlotUnused
    /\ WorldUnused
    /\ pc = [t \in {TickThread} \cup Callbacks \cup Transport |-> "idle"]
    /\ local = [t \in {TickThread} \cup Callbacks \cup Transport |-> NoLocals]
    /\ ChunkUnused /\ PlayerUnused

\* The operations a transport thread runs on the active session.
ServerTransportStep(t) ==
    /\ g_gameSession # NoSession
    /\ \/ AddPlayerLock(t)
       \/ \E id \in ServerPlayerIds : AddPlayerBodyOf(t, id)
       \/ WorldSetBlockLock(t)
       \/ \E p \in ServerWorldCoords, blockType \in ThreadBlockTypes :
             WorldSetBlockGetChunkOf(t, p, blockType)
       \/ WorldSetBlockCell(t)
       \/ WorldSetBlockStamp(t)

\* The on-start and on-terminate calls of a callback thread.
ServerCallbackStep(t) ==
    \/ StartLock(t)
    \/ \E d \in ServerDescriptors : StartInstallOf(t, d)
    \/ StartActivate(t)
    \/ TerminateLock(t)
    \/ TerminateReset(t)
    \/ TerminateEnding(t)

NextServer ==
    \/ LetTimePass
    \/ TickStep
    \/ \E t \in ServerCallbacks : ServerCallbackStep(t)
    \/ \E t \in ServerTransport : ServerTransportStep(t)

SpecServer == InitServer /\ [][NextServer]_vars

(***************************************************************************)
(* Properties of WorldChunk (checked under SpecChunk).                     *)
(***************************************************************************)
\* The cells of a chunk, by the ranges the specification gives.
CellInChunk(p) ==
    /\ 0 <= p[1] /\ p[1] < CHUNK_SIZE
    /\ 0 <= p[2] /\ p[2] < CHUNK_HEIGHT
    /\ 0 <= p[3] /\ p[3] < CHUNK_SIZE

AllCells == (0 .. (CHUNK_SIZE - 1)) \X (0 .. (CHUNK_HEIGHT - 1)) \X (0 .. (CHUNK_SIZE - 1))

\* What a read of cell p must return: the type of the most recent setBlock at
\* exactly p, 0 when the cell was never written.
ExpectedBlock(p) == IF p \in DOMAIN lastSet THEN lastSet[p] ELSE 0

\* C6: after any sequence of setBlock and getBlock calls on a chunk, getBlock at
\* every in-range cell returns the type of the most recent setBlock at exactly
\* that cell, or 0 if the cell was never written (so a write to one cell never
\* changes what is read at another), and getBlock at out-of-range coordinates
\* returns 0.
C6_GetBlockReturnsLastSet ==
    /\ \A p \in AllCells :
          WorldChunk_getBlock(chunk, p[1], p[2], p[3]) = ExpectedBlock(p)
    /\ \A p \in ChunkCoords :
          ~CellInChunk(p) => WorldChunk_getBlock(chunk, p[1], p[2], p[3]) = 0
    /\ call.op = "getBlock" =>
          call.ret = IF CellInChunk(call.at) THEN ExpectedBlock(call.at) ELSE 0

\* A getBlock returned the 7 written at (0,0,1) while its neighbours along the
\* other two axes, written before and after it, hold 7 and 0.
C6_Witness ==
    /\ call.op = "getBlock" /\ call.at = <<0, 0, 1>> /\ call.ret = 7
    /\ lastSet[<<1, 0, 0>>] = 7
    /\ lastSet[<<0, 0, 0>>] = 0
    /\ chunk.lastModified > StartClock

\* C7: a setBlock with out-of-range local coordinates changes neither a cell
\* nor lastModified; lastModified starts at 0, never decreases (the wall clock
\* does not go back) and changes only on an in-range write.
C7_OutOfRangeSetBlockIsNoOp ==
    /\ chunk.lastModified = 0
    /\ [][ /\ (call'.op = "setBlock" /\ ~CellInChunk(call'.at)) => chunk' = chunk
           /\ chunk'.lastModified >= chunk.lastModified
           /\ chunk'.lastModified # chunk.lastModified =>
                 (call'.op = "setBlock" /\ CellInChunk(call'.at)) ]_vars

\* An out-of-range setBlock was called after the clock had moved past the
\* chunk's last in-range write.
C7_Witness ==
    /\ call.op = "setBlock" /\ ~CellInChunk(call.at)
    /\ chunk.lastModified > 0
    /\ clock > chunk.lastModified

\* The start index of run k of a run list, and the list's decoding: count
\* copies of each type, in list order.
RECURSIVE RunStart(_, _)
RunStart(runs, k) == IF k <= 1 THEN 0 ELSE RunStart(runs, k - 1) + runs[k - 1].count

RunTotal(runs) == RunStart(runs, Len(runs) + 1)

RleDecode(runs) ==
    [i \in 0 .. (RunTotal(runs) - 1) |->
        runs[CHOOSE k \in 1 .. Len(runs) :
                RunStart(runs, k) <= i /\ i < RunStart(runs, k) + runs[k].count].type]

\* C8: the blocks list of serialize() decodes to the block array in the order
\* index = y*16*16 + z*16 + x; every count is >= 1, the counts sum to the array
\* length, no two adjacent entries have the same type; an all-zero chunk gives
\* the single entry {0, array length}, and a chunk whose only non-zero cell is
\* (0,0,0) = 7 gives {7,1},{0,array length - 1}.
C8_RleLosslessAndCanonical ==
    call.op = "serialize" =>
        LET runs == call.ret.blocks IN
        /\ \A k \in 1 .. Len(runs) : runs[k].count >= 1
        /\ RunTotal(runs) = CHUNK_SIZE * CHUNK_SIZE * CHUNK_HEIGHT
        /\ \A k \in 1 .. (Len(runs) - 1) : runs[k].type # runs[k + 1].type
        /\ RleDecode(runs) = chunk.blocks
        /\ \A p \in AllCells :
              RleDecode(runs)[p[2] * 16 * 16 + p[3] * 16 + p[1]] = ExpectedBlock(p)
        /\ (\A p \in DOMAIN lastSet : lastSet[p] = 0) =>
              runs = <<[type |-> 0, count |-> CHUNK_SIZE * CHUNK_SIZE * CHUNK_HEIGHT]>>
        /\ (\A p \in DOMAIN lastSet : lastSet[p] = (IF p = <<0, 0, 0>> THEN 7 ELSE 0)) =>
              runs = <<[type |-> 7, count |-> 1],
                       [type |-> 0, count |-> CHUNK_SIZE * CHUNK_SIZE * CHUNK_HEIGHT - 1]>>

\* A chunk with non-zero cells in the middle and at the very end was serialized.
C8_Witness ==
    /\ call.op = "serialize"
    /\ Len(call.ret.blocks) >= 4
    /\ call.ret.blocks[Len(call.ret.blocks)].type = 7
    /\ call.ret.blocks[1].type = 0

(***************************************************************************)
(* Properties of Player (checked under SpecPlayer).                        *)
(***************************************************************************)
\* C10: a player's health is 100 at construction and lies in [0,100] after any
\* sequence of setHealth calls with arbitrary int arguments; setHealth(h)
\* stores 0 for h < 0, 100 for h > 100, and h otherwise.
C10_HealthClamped ==
    /\ 0 <= player.health /\ player.health <= 100
    /\ call.op = "Player" => player.health = 100
    /\ call.op = "setHealth" =>
          player.health = (IF call.arg < 0 THEN 0
                           ELSE IF call.arg > 100 THEN 100
                           ELSE call.arg)

\* setHealth was called with an argument above the range.
C10_Witness ==
    /\ call.op = "setHealth" /\ call.arg > 100
    /\ player.health = 100

\* C12: lastActivity becomes the current clock in setPosition, in
\* updateActivity and in setConnected(true); setConnected(false), setHealth,
\* setLevel, setBrahmaKavacha and the additions to the progression sets leave
\* it unchanged, and so does the passing of time.
C12_LastActivityFrame ==
    [][ IF clock' # clock
        THEN player'.lastActivity = player.lastActivity
        ELSE /\ call'.op \in {"setPosition", "updateActivity"} =>
                   player'.lastActivity = clock
             /\ call'.op = "setConnected" =>
                   player'.lastActivity =
                       (IF call'.arg THEN clock ELSE player.lastActivity)
             /\ call'.op \in {"setHealth", "setLevel", "setBrahmaKavacha",
                              "addUnlockedArea", "addLearnedAstra", "addLearnedSiddhi"} =>
                   player'.lastActivity = player.lastActivity ]_vars

\* The player was disconnected after the clock had moved on from its last
\* activity, which followed a move.
C12_Witness ==
    /\ call = [op |-> "setConnected", arg |-> FALSE]
    /\ ~player.isConnected
    /\ player.lastActivity < clock
    /\ player.x = -3

(***************************************************************************)
(* Properties of GameWorld (checked under SpecWorld).                      *)
(***************************************************************************)
\* C9: for every world coordinate (wx, wy, wz) with wy inside the chunk height,
\* negative wx and wz included, setBlock and getBlock address the chunk
\* (floor(wx/16), floor(wz/16)) with local coordinates wx - cx*16 and
\* wz - cz*16 inside [0,16), and getBlock returns the type of the last
\* setBlock at the same world coordinate (0 if there was none), so that no two
\* world coordinates share a cell.
C9_FloorDivisionTranslation ==
    /\ (call.op \in {"setBlock", "getBlock"} /\ call.at \in DOMAIN lastSet) =>
          /\ call.chunkId = getChunkId(call.at[1] \div 16, call.at[3] \div 16)
          /\ call.local = <<call.at[1] - (call.at[1] \div 16) * 16, call.at[2],
                            call.at[3] - (call.at[3] \div 16) * 16>>
          /\ 0 <= call.local[1] /\ call.local[1] < 16
          /\ 0 <= call.local[3] /\ call.local[3] < 16
    /\ (call.op = "getBlock" /\ call.at \in DOMAIN lastSet) =>
          call.ret = lastSet[call.at]
    /\ \A p \in DOMAIN lastSet :
          GameWorld_getBlock(chunks, p[1], p[2], p[3]).ret = lastSet[p]
    /\ (call.op = "setBlock" /\ call.at = <<-1, 1, -1>>) =>
          /\ "-1:-1" \in DOMAIN chunks
          /\ GameWorld_getBlock(chunks, 0, 1, 0).ret = lastSet[<<0, 1, 0>>]

\* The step is a setBlock call that wrote a cell (its local coordinates are
\* inside the chunk).
WroteCell ==
    /\ call'.op = "setBlock"
    /\ <<call, chunks>>' # <<call, chunks>>
    /\ InRange(call'.local[1], call'.local[2], call'.local[3])

\* C11: getModifiedChunks(since) returns exactly the ids of the chunks of the
\* map whose lastModified is greater than since: a chunk written at clock
\* time T is returned for every since < T and for no since >= T, a chunk that
\* a read or an out-of-range write created is returned for no since >= 0, and
\* no other call changes which chunks are returned.
C11_ModifiedChunksSince ==
    [][ /\ WroteCell =>
              \A s \in SinceTimes :
                  (call'.chunkId \in GameWorld_getModifiedChunks(chunks', s)) <=> (s < clock)
        /\ \A i \in DOMAIN chunks' :
              (~WroteCell \/ call'.chunkId # i) =>
                  \A s \in SinceTimes :
                      (i \in GameWorld_getModifiedChunks(chunks', s)) <=>
                          (i \in DOMAIN chunks /\ i \in GameWorld_getModifiedChunks(chunks, s))
        /\ (call'.op = "getModifiedChunks" /\ call' # call) =>
              /\ chunks' = chunks
              /\ call'.ret \subseteq DOMAIN chunks
              /\ \A i \in DOMAIN chunks :
                    i \in call'.ret <=> chunks[i].lastModified > call'.since ]_vars

\* getModifiedChunks(T) has returned a chunk, leaving out a chunk written at T
\* and a chunk that was only created.
C11_Witness ==
    /\ call.op = "getModifiedChunks"
    /\ call.ret # {}
    /\ \E i \in DOMAIN chunks : chunks[i].lastModified = 0 /\ i \notin call.ret
    /\ \E j \in DOMAIN chunks :
          chunks[j].lastModified = call.since /\ call.since > 0 /\ j \notin call.ret

(***************************************************************************)
(* Properties of GameSession (checked under SpecSession).                  *)
(***************************************************************************)
RosterSize == Cardinality(DOMAIN players)

\* C1: in every reachable state of a session, after any interleaving of
\* addPlayer, removePlayer and update() calls of the tick thread and the
\* transport threads, the roster holds at most MAX_PLAYERS players.
C1_RosterWithinCapacity == RosterSize <= MAX_PLAYERS

\* The roster is full and the last addPlayer was refused.
C1_Witness ==
    /\ RosterSize = MAX_PLAYERS
    /\ call = [op |-> "addPlayer", ret |-> FALSE]

\* C2: every addPlayer call, in any roster state and for any playerId (one
\* already in the roster included), returns true exactly when it makes the
\* roster one player larger; when it returns false (as it does whenever the
\* roster holds MAX_PLAYERS or more) the roster and every Player in it are
\* unchanged.
C2_AddPlayerTrueIffRosterGrows ==
    [][ \A t \in Transport :
          (pc[t] = "addPlayer" /\ pc'[t] = "idle") =>
             /\ (call'.ret = TRUE) <=>
                   (Cardinality(DOMAIN players') = Cardinality(DOMAIN players) + 1)
             /\ (call'.ret = FALSE) => players' = players
             /\ (Cardinality(DOMAIN players) >= MAX_PLAYERS) => call'.ret = FALSE ]_vars

\* C3: when update() runs with no write to the roster or to a Player by another
\* thread between its scan and its return, every player whose lastActivity was
\* more than 300 seconds before the time the scan read is absent from the
\* roster when update() returns, and every other player (300 seconds or less)
\* is still in the roster with its state unchanged.
C3_UpdateEvictsExactlyTheIdle ==
    [][ (pc[TickThread] = "update_remove" /\ pc'[TickThread] = "update_done"
         /\ local[TickThread].alone) =>
            \A id \in DOMAIN local[TickThread].before :
                IF local[TickThread].now - local[TickThread].before[id].lastActivity > 300
                THEN id \notin DOMAIN players'
                ELSE /\ id \in DOMAIN players'
                     /\ players'[id] = local[TickThread].before[id] ]_vars

\* update() is about to return, undisturbed, having evicted a player idle for
\* more than 300 s and kept one idle for exactly 300 s.
C3_Witness ==
    /\ pc[TickThread] = "update_remove"
    /\ local[TickThread].i > Len(local[TickThread].inactivePlayers)
    /\ local[TickThread].alone
    /\ Len(local[TickThread].inactivePlayers) >= 1
    /\ \E id \in DOMAIN players :
          local[TickThread].now - players[id].lastActivity = 300

\* C5: the player ids of the array serializePlayerStates returns are the
\* roster's id set at one instant of the call: the set is one the roster had
\* while the call ran, the array has exactly that many entries, none of them
\* unassigned, and no id appears twice.
C5_SnapshotIsOneRoster ==
    [][ \A t \in Transport :
          (pc[t] = "ser_iter" /\ pc'[t] = "idle") =>
             LET arr == local[t].playersArray
                 ids == {arr[k].playerId : k \in 1 .. Len(arr)}
             IN  /\ ids \in local[t].seen
                 /\ Len(arr) = Cardinality(ids)
                 /\ \A k \in 1 .. Len(arr) : arr[k] # NullJson
                 /\ \A j, k \in 1 .. Len(arr) : j # k => arr[j].playerId # arr[k].playerId
                 /\ players' = players ]_vars

\* A serialization of a full roster is complete while update() waits for the
\* roster lock to evict a player and the other transport thread holds a
\* Player pointer.
C5_Witness ==
    \E t \in Transport :
        /\ pc[t] = "ser_iter"
        /\ KeysAfter(players, local[t].last) = {}
        /\ Len(local[t].playersArray) = MAX_PLAYERS
        /\ pc[TickThread] = "update_remove"
        /\ local[TickThread].i <= Len(local[TickThread].inactivePlayers)
        /\ \E u \in Transport \ {t} : pc[u] = "handle"

\* C15: every mutation of a Player through the pointer getPlayer returned is
\* made while the caller holds the roster lock, and the pointer is never used
\* after its player was removed from the roster (or replaced).
C15_HandleUsedUnderLock ==
    [][ \A t \in Transport :
          (pc[t] = "handle" /\ pc'[t] # "handle") =>
              /\ playersMutex = t
              /\ local[t].valid ]_vars

\* C19: update() never removes a player who is not idle at the moment of the
\* removal: a player its removePlayer call erases has a lastActivity more than
\* 300 seconds old, whatever other threads did to the player or to its id since
\* the scan.
C19_UpdateRemovesOnlyIdle ==
    [][ (pc[TickThread] = "update_erase" /\ pc'[TickThread] = "update_remove") =>
            \A id \in (DOMAIN players) \ (DOMAIN players') :
                clock - players[id].lastActivity > 300 ]_vars

(***************************************************************************)
(* Properties of the session slot (checked under SpecLifecycle).           *)
(***************************************************************************)
\* The game mode a descriptor asks for: the value of its "gameMode" property
\* (of the last one, should there be several), "standard" without one.
ModeOf(d) ==
    LET ks == {k \in 1 .. Len(d.properties) : d.properties[k].key = "gameMode"} IN
    IF ks = {} THEN "standard"
    ELSE d.properties[CHOOSE k \in ks : \A j \in ks : j <= k].value

HoldsSessionOf(slot, d) ==
    /\ slot # NoSession
    /\ slot.sessionId = d.sessionId
    /\ slot.gameMode = ModeOf(d)

StartReturns(t) == pc[t] = "start_activate" /\ pc'[t] = "idle"
TerminateReturns(t) == pc[t] = "term_ending" /\ pc'[t] = "idle"
StartInstalls(t) == pc[t] = "start_locked" /\ pc'[t] = "start_activate"
TerminateResets(t) == pc[t] = "term_locked" /\ pc'[t] = "term_ending"

C20_ActivationSignalMatchesSlot ==
    [][ \A t \in Callbacks :
          (pc[t] = "start_activate" /\ signal' = [kind |-> "ActivateGameSession"]
             /\ pc'[t] = "idle") =>
              /\ g_gameSession # NoSession
              /\ local[t].intact
              /\ HoldsSessionOf(g_gameSession, local[t].descriptor) ]_vars

(***************************************************************************)
(* Properties of the world under concurrent use (SpecWorldThreads).        *)
(***************************************************************************)
\* C16: setBlock holds the chunk-map lock for the whole operation, the write
\* of the cell and the update of lastModified included, so a serializeChunk or
\* getModifiedChunks that returns never ran on a chunk whose cell another
\* thread has written without having advanced its lastModified yet.
C16_WorldWritesUnderChunkLock ==
    [][ \A t \in Transport :
          /\ (pc[t] \in {"setBlock_cell", "setBlock_stamp"} /\ pc'[t] # pc[t]) =>
                chunkMutex = t
          /\ (pc[t] \in {"serializeChunk", "getModifiedChunks"} /\ pc'[t] = "idle") =>
                \A u \in Transport : pc[u] # "setBlock_stamp" ]_vars

(***************************************************************************)
(* Properties of the locks (checked under SpecServer).                     *)
(***************************************************************************)
\* The locks thread t holds.
LocksHeld(t) ==
    (IF g_gameSessionMutex = t THEN {"slot"} ELSE {})
        \cup (IF playersMutex = t THEN {"roster"} ELSE {})
        \cup (IF chunkMutex = t THEN {"chunk"} ELSE {})

\* The locks thread t acquires in the step.
LocksAcquired(t) ==
    (IF g_gameSessionMutex' = t /\ g_gameSessionMutex # t THEN {"slot"} ELSE {})
        \cup (IF playersMutex' = t /\ playersMutex # t THEN {"roster"} ELSE {})
        \cup (IF chunkMutex' = t /\ chunkMutex # t THEN {"chunk"} ELSE {})

\* C13 as stated: no thread holds one of the three locks at the moment it
\* acquires another.
C13_NoLockHeldWhileAcquiring ==
    [][ \A t \in DOMAIN pc :
          LocksAcquired(t) # {} => LocksHeld(t) = {} ]_vars

\* C13 amended: the only lock acquired by a thread that holds a lock is the
\* roster lock, acquired by the tick thread inside update() while it holds the
\* session-slot lock and nothing else; on-start, on-terminate and the roster
\* and world operations acquire their lock while holding none, and no thread
\* that holds the roster lock or the chunk-map lock acquires a lock.
C13_OnlyTickNestsRosterInSlot ==
    [][ \A t \in DOMAIN pc :
          LocksAcquired(t) # {} =>
              \/ LocksHeld(t) = {}
              \/ /\ t = TickThread
                 /\ LocksAcquired(t) = {"roster"}
                 /\ LocksHeld(t) = {"slot"} ]_vars

\* The tick thread holds the slot lock and, inside update(), the roster lock
\* for a removal, while the transport thread holds the chunk-map lock and a
\* callback thread is between its install and its signal.
C13_Witness ==
    /\ LocksHeld(TickThread) = {"slot", "roster"}
    /\ pc[TickThread] = "update_erase"
    /\ \E t \in Transport : LocksHeld(t) = {"chunk"}
    /\ \E t \in Callbacks : pc[t] = "start_activate"

\* The steps of thread t in SpecServer.
ThreadStep(t) ==
    \/ t = TickThread /\ TickStep
    \/ t \in Callbacks /\ ServerCallbackStep(t)
    \/ t \in Transport /\ ServerTransportStep(t)

\* Thread t holds a lock and cannot take a step: it waits for a lock.
Blocked(t) == LocksHeld(t) # {} /\ ~ENABLED ThreadStep(t)

\* C14: the system is deadlock-free. No thread holds the roster lock and the
\* chunk-map lock at once, update() does not hold the roster lock between its
\* scan and its removePlayer calls, a thread that waits for a lock while it
\* holds one waits for a lock whose holder can take a step, and locks are
\* nested only in the order session-slot, then roster or chunk-map.
C14_DeadlockFree ==
    /\ [](Running =>
            /\ \A t \in DOMAIN pc : ~({"roster", "chunk"} \subseteq LocksHeld(t))
            /\ pc[TickThread] = "update_remove" => playersMutex # TickThread
            /\ \A t \in DOMAIN pc :
                  Blocked(t) =>
                      \E u \in (DOMAIN pc) \ {t} :
                          /\ LocksHeld(u) # {}
                          /\ LocksHeld(u) \subseteq {"roster", "chunk"}
                          /\ ~Blocked(u))
    /\ [][ \A t \in DOMAIN pc :
             /\ "slot" \in LocksAcquired(t) => LocksHeld(t) = {}
             /\ LocksAcquired(t) \cap {"roster", "chunk"} # {} =>
                   LocksHeld(t) \subseteq {"slot"} ]_vars

\* The tick thread, holding the slot lock, waits inside update() for the
\* roster lock that the transport thread holds in addPlayer, while a callback
\* thread waits for the slot lock.
C14_Witness ==
    /\ Blocked(TickThread)
    /\ pc[TickThread] = "update_remove"
    /\ \E t \in Transport : pc[t] = "addPlayer" /\ playersMutex = t
    /\ \E t \in Callbacks : pc[t] = "term_ending"

(***************************************************************************)
(* Properties of the tick against the callbacks (checked under SpecServer).*)
(***************************************************************************)
\* The tick thread is inside Session.update().
InUpdate == pc[TickThread] \in {"update_scan", "update_remove", "update_erase", "update_done"}

\* C17: update() runs only with the session-slot lock held by the tick thread
\* and on the session that is in the slot, which no on-start or on-terminate
\* clears or replaces before the iteration releases the lock; an iteration
\* that finds the slot empty (after an on-terminate) calls no update() and
\* changes nothing but its lock, and the tick thread can always go on: it is
\* never left without a step once the slot lock is free.
C17_UpdateOnlyOnInstalledSession ==
    /\ [](Running =>
            /\ InUpdate => (g_gameSessionMutex = TickThread /\ g_gameSession # NoSession)
            /\ (pc[TickThread] = "tick_locked" /\ g_gameSession = NoSession) =>
                  ENABLED TickUnlock
            /\ (pc[TickThread] = "idle" /\ g_gameSessionMutex = NoThread) =>
                  ENABLED TickLock)
    /\ [][ /\ pc[TickThread] # "idle" => g_gameSession' = g_gameSession
           /\ (g_gameSession = NoSession /\ pc'[TickThread] # pc[TickThread]) =>
                 /\ pc'[TickThread] \in {"idle", "tick_locked"}
                 /\ <<clock, call, players, playersMutex, chunks, chunkMutex,
                      g_gameSession, signal, local>>' =
                    <<clock, call, players, playersMutex, chunks, chunkMutex,
                      g_gameSession, signal, local>> ]_vars

\* An on-terminate has returned, the slot is empty, and the tick thread holds
\* the slot lock in an iteration that will call no update(), the clock having
\* reached the time at which a player of the torn-down session would be idle.
C17_Witness ==
    /\ pc[TickThread] = "tick_locked"
    /\ g_gameSession = NoSession
    /\ call = [op |-> "onProcessTerminate", ret |-> TRUE]
    /\ signal = [kind |-> "ProcessEnding"]
    /\ clock = StartClock + MaxElapsed + IDLE_TIMEOUT

(***************************************************************************)
(* Eviction liveness (checked under SpecEviction).                         *)
(***************************************************************************)
\* Player id is in the roster and has been idle for more than 300 seconds.
IdleInRoster(id) ==
    /\ Running
    /\ id \in DOMAIN players
    /\ clock - players[id].lastActivity > 300

\* Player id has left the roster or is no longer idle (or the process is gone).
EvictedOrActive(id) ==
    \/ ~Running
    \/ id \notin DOMAIN players
    \/ clock - players[id].lastActivity <= 300

====
